---- MODULE Spec2Model ----
(***************************************************************************)
(* agentLoop (src/src/index.ts): one invocation of the loop, with the      *)
(* three caller-supplied callbacks as the environment.  Each await of the  *)
(* code is a program position; a callback completes by resolving with a    *)
(* value or by rejecting with an error.  A second specification runs two   *)
(* invocations whose steps interleave at the awaits.                       *)
(***************************************************************************)
EXTENDS Integers, Sequences, FiniteSets, TLC

\* ------------------------------------------------------------------ bounds
\* largest explicit options.maxLoops tried
MaxLoopsBound == 3
\* explicit options.maxLoops goes down to -NegLoopsBound
NegLoopsBound == 1
\* number of distinct context values
NumContexts == 2
\* number of distinct defined response values
NumResponses == 2
\* number of distinct error values a callback may throw
NumErrors == 2
\* largest threshold of the counter callbacks
MaxThreshold == 3
\* largest maxLoops of the two interleaved invocations
PairMaxLoops == 2

\* --------------------------------------------------------- program values
\* `maxLoops = 10` in the destructuring of the options
DefaultMaxLoops == 10

\* An optional value is a sequence of length 0 (undefined / omitted) or 1.
Undefined == <<>>

Some(v) == <<v>>

Contexts == 1..NumContexts

\* TResponse is unconstrained: llmCaller may resolve to undefined as well.
Responses == {Undefined} \cup {Some(i) : i \in 1..NumResponses}

Errors == 1..NumErrors

MaxLoopsChoices == {Undefined} \cup {Some(n) : n \in (0 - NegLoopsBound)..MaxLoopsBound}

\* Options whose callbacks are arbitrary: they may resolve to any value of
\* their type, synchronously or through a promise, or fail.
AnyOptions == [maxLoops : MaxLoopsChoices, updateContext : BOOLEAN, initialContext : Contexts,
               callbacks : {"any"}, threshold : {0}]

\* Options whose callbacks are those of the test 'should update context
\* between iterations': the context is a counter, updateContext increments
\* it and stopCondition holds from a threshold on.
CounterOptions == [maxLoops : MaxLoopsChoices, updateContext : BOOLEAN, initialContext : 0..1,
                   callbacks : {"counter"}, threshold : 0..MaxThreshold]

\* AgentLoopOptions: the record keeps what the loop reads of the options
\* and which callbacks they hold.
AgentLoopOptions == AnyOptions \cup CounterOptions

\* the options of two invocations that run interleaved
PairOptions == {o \in CounterOptions : o.maxLoops \in {Some(n) : n \in 0..PairMaxLoops} /\ o.threshold \in 1..2}

NoCall == [fn |-> "none", response |-> Undefined, context |-> 0]

\* one invocation of a callback: the n-th of callback fn
Invocation(fn, n) == [fn |-> fn, n |-> n]

\* the positions at which the async function is suspended
AwaitPositions == {"awaitLlm", "awaitStop", "awaitUpdate"}

VARIABLES
  options,        \* the options as they were when agentLoop was called
  live,           \* the options object as it is now (a callback may mutate it)
  pc,             \* position of the async function
  maxLoops,       \* local: destructured bound
  hasUpdate,      \* local: updateContext is truthy
  currentContext, \* local
  lastResponse,   \* local
  response,       \* local of the loop body
  iterations,     \* local
  call,           \* the callback invocation being awaited, with its arguments
  pending,        \* the callback invocations started and not yet completed
  settled,        \* state of the promise agentLoop returned
  result,         \* Some(AgentLoopResult) once fulfilled
  rejection,      \* Some(error) once rejected
  thrown,         \* Some([by, error]): the failure a callback raised
  llmCalls,       \* number of llmCaller invocations started
  stopCalls,      \* number of stopCondition invocations started
  updateCalls,    \* number of updateContext invocations started
  stopLog,        \* the booleans stopCondition resolved to, in order
  llmArg,         \* context passed to the most recent llmCaller invocation
  llmRet,         \* Some(value) the most recent llmCaller invocation resolved to
  updateRet,      \* Some(context) the most recent updateContext resolved to
  awaited,        \* Some([fn, async]): the stopCondition/updateContext completed last
  passed,         \* the contexts passed to llmCaller or stopCondition so far
  abort,          \* a flag shared with stopCondition: true once an abort was asked
  abortAt,        \* Some(the position and counters at which abort was set)
  other           \* Some(the suspended state of a second invocation)

vars == <<options, live, pc, maxLoops, hasUpdate, currentContext, lastResponse, response,
          iterations, call, pending, settled, result, rejection, thrown, llmCalls,
          stopCalls, updateCalls, stopLog, llmArg, llmRet, updateRet, awaited, passed,
          abort, abortAt, other>>

locals == <<maxLoops, hasUpdate, currentContext, lastResponse, response, iterations>>

counters == <<llmCalls, stopCalls, updateCalls>>

history == <<stopLog, llmArg, llmRet, updateRet, awaited, passed>>

outcome == <<settled, result, rejection, thrown>>

\* what no step of the loop itself changes
surroundings == <<options, live, abort, abortAt, other>>

\* ---------------------------------------------------------- the callbacks
\* the values llmCaller may resolve to when called with ctx
LlmCallerReturns(opts, ctx) ==
  IF opts.callbacks = "any" THEN Responses ELSE {Some((ctx % NumResponses) + 1)}

\* what stopCondition may return when called with (resp, ctx): a boolean or
\* a promise of one.  A stopCondition that watches the abort flag returns
\* true once the flag is set.
StopConditionReturns(opts, resp, ctx, flag) ==
  IF opts.callbacks = "any"
    THEN {r \in [async : BOOLEAN, value : BOOLEAN] : flag => r.value}
    ELSE {[async |-> FALSE, value |-> (ctx >= opts.threshold)]}

\* what updateContext may return when called with (resp, ctx): a context or
\* a promise of one
UpdateContextReturns(opts, resp, ctx) ==
  IF opts.callbacks = "any"
    THEN [async : BOOLEAN, value : Contexts]
    ELSE {[async |-> FALSE, value |-> ctx + 1]}

\* arbitrary callbacks may throw or reject; the counter callbacks never do
MayFail(opts) == opts.callbacks = "any"

\* ------------------------------------------------------ pieces of the code
\* mutant: `options.maxLoops || 10` (a falsy 0 takes the default too)
DestructuredMaxLoops_Falsy(opts) == IF opts.maxLoops = Undefined \/ opts.maxLoops = Some(0) THEN DefaultMaxLoops ELSE opts.maxLoops[1]

\* mutant: no default in the destructuring; `iterations < undefined` is false
DestructuredMaxLoops_NoDefault(opts) == IF opts.maxLoops = Undefined THEN 0 ELSE opts.maxLoops[1]

\* const { ..., maxLoops = 10, ... } = options
DestructuredMaxLoops(opts) == IF opts.maxLoops = Undefined THEN DefaultMaxLoops ELSE opts.maxLoops[1]

\* mutant: `while (iterations < options.maxLoops)`, read at every test
LoopBound_Reread == DestructuredMaxLoops(live)

\* the bound the loop test reads: the destructured local
LoopBound == maxLoops

\* mutant: `while (iterations !== maxLoops)`
LoopCondition_NotEqual(it, max) == it # max

\* mutant: `while (iterations <= maxLoops)`
LoopCondition_Inclusive(it, max) == it <= max

\* while (iterations < maxLoops)
LoopCondition(it, max) == it < max

\* mutant: the update step runs whether or not updateContext was supplied
UpdateSupplied_Always(upd) == TRUE

\* if (updateContext)
UpdateSupplied(upd) == upd

\* mutant: `const shouldStop = stopCondition(...)`: a promise is truthy
AwaitStop_Missing(ret) == ret.async \/ ret.value

\* const shouldStop = await stopCondition(...): the boolean itself, or the
\* boolean the promise resolves to
AwaitStop(ret) == ret.value

\* currentContext = await updateContext(...): the context itself, or the
\* context the promise resolves to
AwaitUpdate(ret) == ret.value

\* mutant: the counter is reported as if it were incremented at the end of the body
StopResult_CountsCompleted(ctx, last, it) == [finalContext |-> ctx, lastResponse |-> last, reason |-> "stop_condition", iterations |-> it - 1]

\* the object returned inside the loop
StopResult(ctx, last, it) == [finalContext |-> ctx, lastResponse |-> last, reason |-> "stop_condition", iterations |-> it]

\* mutant: the object returned after the loop carries the reason of the other return
MaxLoopsResult_StopReason(ctx, last, it) == [finalContext |-> ctx, lastResponse |-> last, reason |-> "stop_condition", iterations |-> it]

\* the object returned after the loop
MaxLoopsResult(ctx, last, it) == [finalContext |-> ctx, lastResponse |-> last, reason |-> "max_loops", iterations |-> it]

\* ------------------------------------------------------------------- Init
\* the state of an invocation that has just been called with opts
StartState(opts) ==
  [options |-> opts, live |-> opts, pc |-> "start", maxLoops |-> 0, hasUpdate |-> FALSE,
   currentContext |-> 0, lastResponse |-> Undefined, response |-> Undefined,
   iterations |-> 0, call |-> NoCall, pending |-> {}, settled |-> "pending",
   result |-> Undefined, rejection |-> Undefined, thrown |-> Undefined, llmCalls |-> 0,
   stopCalls |-> 0, updateCalls |-> 0, stopLog |-> <<>>, llmArg |-> 0,
   llmRet |-> Undefined, updateRet |-> Undefined, awaited |-> Undefined, passed |-> {},
   abort |-> FALSE, abortAt |-> Undefined]

\* the variables of an invocation that has just been called with opts
Begun(opts) ==
  /\ options = opts
  /\ live = opts
  /\ pc = "start"
  /\ maxLoops = 0
  /\ hasUpdate = FALSE
  /\ currentContext = 0
  /\ lastResponse = Undefined
  /\ response = Undefined
  /\ iterations = 0
  /\ call = NoCall
  /\ pending = {}
  /\ settled = "pending"
  /\ result = Undefined
  /\ rejection = Undefined
  /\ thrown = Undefined
  /\ llmCalls = 0
  /\ stopCalls = 0
  /\ updateCalls = 0
  /\ stopLog = <<>>
  /\ llmArg = 0
  /\ llmRet = Undefined
  /\ updateRet = Undefined
  /\ awaited = Undefined
  /\ passed = {}
  /\ abort = FALSE
  /\ abortAt = Undefined

\* one invocation, with any options
Init ==
  /\ \E opts \in AgentLoopOptions : Begun(opts)
  /\ other = Undefined

\* ---------------------------------------------------------------- actions
\* lines 72-76: destructure the options, initialise the locals
Enter ==
  /\ pc = "start"
  /\ maxLoops' = DestructuredMaxLoops(live)
  /\ hasUpdate' = live.updateContext
  /\ currentContext' = live.initialContext
  /\ lastResponse' = Undefined
  /\ iterations' = 0
  /\ pc' = "loop"
  /\ UNCHANGED <<response, call, pending, outcome, counters, history, surroundings>>

\* mutant: the `iterations++` of the loop body is missing
LoopEnter_NoIncrement ==
  /\ pc = "loop"
  /\ LoopCondition(iterations, LoopBound)
  /\ iterations' = iterations
  /\ call' = [fn |-> "llmCaller", response |-> Undefined, context |-> currentContext]
  /\ pending' = pending \cup {Invocation("llmCaller", iterations + 1)}
  /\ llmCalls' = llmCalls + 1
  /\ llmArg' = currentContext
  /\ passed' = passed \cup {currentContext}
  /\ pc' = "awaitLlm"
  /\ UNCHANGED <<maxLoops, hasUpdate, currentContext, lastResponse, response, outcome,
                 stopCalls, updateCalls, stopLog, llmRet, updateRet, awaited, surroundings>>

\* lines 78-81: the loop test holds; iterations++; llmCaller(currentContext)
LoopEnter ==
  /\ pc = "loop"
  /\ LoopCondition(iterations, LoopBound)
  /\ iterations' = iterations + 1
  /\ call' = [fn |-> "llmCaller", response |-> Undefined, context |-> currentContext]
  /\ pending' = pending \cup {Invocation("llmCaller", iterations + 1)}
  /\ llmCalls' = llmCalls + 1
  /\ llmArg' = currentContext
  /\ passed' = passed \cup {currentContext}
  /\ pc' = "awaitLlm"
  /\ UNCHANGED <<maxLoops, hasUpdate, currentContext, lastResponse, response, outcome,
                 stopCalls, updateCalls, stopLog, llmRet, updateRet, awaited, surroundings>>

\* mutant: `lastResponse ??= response` (only the first response is kept)
LlmResolve_KeepsFirst ==
  /\ pc = "awaitLlm"
  /\ \E r \in LlmCallerReturns(options, call.context) :
       /\ response' = r
       /\ lastResponse' = (IF lastResponse = Undefined THEN r ELSE lastResponse)
       /\ llmRet' = Some(r)
       /\ call' = [fn |-> "stopCondition", response |-> r, context |-> currentContext]
  /\ pending' = (pending \ {Invocation("llmCaller", iterations)}) \cup {Invocation("stopCondition", iterations)}
  /\ passed' = passed \cup {currentContext}
  /\ stopCalls' = stopCalls + 1
  /\ pc' = "awaitStop"
  /\ UNCHANGED <<maxLoops, hasUpdate, currentContext, iterations, outcome, llmCalls,
                 updateCalls, stopLog, llmArg, updateRet, awaited, surroundings>>

\* mutant: stopCondition(response, initialContext), a stale context
LlmResolve_StaleContext ==
  /\ pc = "awaitLlm"
  /\ \E r \in LlmCallerReturns(options, call.context) :
       /\ response' = r
       /\ lastResponse' = r
       /\ llmRet' = Some(r)
       /\ call' = [fn |-> "stopCondition", response |-> r, context |-> options.initialContext]
  /\ pending' = (pending \ {Invocation("llmCaller", iterations)}) \cup {Invocation("stopCondition", iterations)}
  /\ passed' = passed \cup {options.initialContext}
  /\ stopCalls' = stopCalls + 1
  /\ pc' = "awaitStop"
  /\ UNCHANGED <<maxLoops, hasUpdate, currentContext, iterations, outcome, llmCalls,
                 updateCalls, stopLog, llmArg, updateRet, awaited, surroundings>>

\* mutant: the stop check is missing; the response goes straight to
\* updateContext
LlmResolve_UpdatesFirst ==
  /\ pc = "awaitLlm"
  /\ \E r \in LlmCallerReturns(options, call.context) :
       /\ response' = r
       /\ lastResponse' = r
       /\ llmRet' = Some(r)
       /\ call' = [fn |-> "updateContext", response |-> r, context |-> currentContext]
  /\ pending' = (pending \ {Invocation("llmCaller", iterations)}) \cup {Invocation("updateContext", iterations)}
  /\ updateCalls' = updateCalls + 1
  /\ pc' = "awaitUpdate"
  /\ UNCHANGED <<maxLoops, hasUpdate, currentContext, iterations, outcome, llmCalls,
                 stopCalls, stopLog, llmArg, updateRet, awaited, passed, surroundings>>

\* lines 81-84: llmCaller resolved to r; lastResponse = response;
\* stopCondition(response, currentContext)
LlmResolve ==
  /\ pc = "awaitLlm"
  /\ \E r \in LlmCallerReturns(options, call.context) :
       /\ response' = r
       /\ lastResponse' = r
       /\ llmRet' = Some(r)
       /\ call' = [fn |-> "stopCondition", response |-> r, context |-> currentContext]
  /\ pending' = (pending \ {Invocation("llmCaller", iterations)}) \cup {Invocation("stopCondition", iterations)}
  /\ passed' = passed \cup {currentContext}
  /\ stopCalls' = stopCalls + 1
  /\ pc' = "awaitStop"
  /\ UNCHANGED <<maxLoops, hasUpdate, currentContext, iterations, outcome, llmCalls,
                 updateCalls, stopLog, llmArg, updateRet, awaited, surroundings>>

\* mutant: the failure is caught and the loop goes on to its next test
Reject_Retries(at, by) ==
  /\ pc = at
  /\ MayFail(options)
  /\ \E e \in Errors : thrown' = Some([by |-> by, error |-> e])
  /\ call' = NoCall
  /\ pending' = pending \ {Invocation(by, iterations)}
  /\ pc' = "loop"
  /\ UNCHANGED <<locals, settled, result, rejection, counters, history, surroundings>>

\* a callback threw or rejected at the await of position `at`: nothing
\* catches it, so the promise of agentLoop rejects with the same error
Reject(at, by) ==
  /\ pc = at
  /\ MayFail(options)
  /\ \E e \in Errors :
       /\ thrown' = Some([by |-> by, error |-> e])
       /\ rejection' = Some(e)
  /\ settled' = "rejected"
  /\ call' = NoCall
  /\ pending' = pending \ {Invocation(by, iterations)}
  /\ pc' = "done"
  /\ UNCHANGED <<locals, result, counters, history, surroundings>>

\* line 81: llmCaller rejected
LlmReject == Reject("awaitLlm", "llmCaller")

\* line 84: stopCondition threw or rejected
StopReject == Reject("awaitStop", "stopCondition")

\* line 95: updateContext threw or rejected
UpdateReject == Reject("awaitUpdate", "updateContext")

\* mutant: the context is updated before the stop decision is acted on,
\* so the returned context is derived from the terminating response
StopTrue_ReturnsUpdated ==
  /\ pc = "awaitStop"
  /\ \E ret \in StopConditionReturns(options, call.response, call.context, abort) :
       /\ AwaitStop(ret)
       /\ stopLog' = Append(stopLog, ret.value)
       /\ awaited' = Some([fn |-> "stopCondition", async |-> ret.async])
  /\ \E c \in Contexts :
       /\ currentContext' = c
       /\ updateRet' = Some(c)
       /\ result' = Some(StopResult(c, lastResponse, iterations))
  /\ updateCalls' = updateCalls + 1
  /\ settled' = "fulfilled"
  /\ call' = NoCall
  /\ pending' = pending \ {Invocation("stopCondition", iterations)}
  /\ pc' = "done"
  /\ UNCHANGED <<maxLoops, hasUpdate, lastResponse, response, iterations, rejection,
                 thrown, llmCalls, stopCalls, llmArg, llmRet, passed, surroundings>>

\* mutant: `if (shouldStop) { }` without the return: the loop goes on
StopTrue_Continues ==
  /\ pc = "awaitStop"
  /\ \E ret \in StopConditionReturns(options, call.response, call.context, abort) :
       /\ AwaitStop(ret)
       /\ stopLog' = Append(stopLog, ret.value)
       /\ awaited' = Some([fn |-> "stopCondition", async |-> ret.async])
  /\ IF UpdateSupplied(hasUpdate)
       THEN /\ call' = [fn |-> "updateContext", response |-> response, context |-> currentContext]
            /\ pending' = (pending \ {Invocation("stopCondition", iterations)}) \cup {Invocation("updateContext", iterations)}
            /\ updateCalls' = updateCalls + 1
            /\ pc' = "awaitUpdate"
       ELSE /\ call' = NoCall
            /\ pending' = pending \ {Invocation("stopCondition", iterations)}
            /\ updateCalls' = updateCalls
            /\ pc' = "loop"
  /\ UNCHANGED <<locals, outcome, llmCalls, stopCalls, llmArg, llmRet, updateRet, passed,
                 surroundings>>

\* lines 84-92: stopCondition resolved to true: return inside the loop
StopTrue ==
  /\ pc = "awaitStop"
  /\ \E ret \in StopConditionReturns(options, call.response, call.context, abort) :
       /\ AwaitStop(ret)
       /\ stopLog' = Append(stopLog, ret.value)
       /\ awaited' = Some([fn |-> "stopCondition", async |-> ret.async])
  /\ result' = Some(StopResult(currentContext, lastResponse, iterations))
  /\ settled' = "fulfilled"
  /\ call' = NoCall
  /\ pending' = pending \ {Invocation("stopCondition", iterations)}
  /\ pc' = "done"
  /\ UNCHANGED <<locals, rejection, thrown, counters, llmArg, llmRet, updateRet, passed,
                 surroundings>>

\* mutant: updateContext is skipped on the last allowed iteration
StopFalse_SkipsLastUpdate ==
  /\ pc = "awaitStop"
  /\ \E ret \in StopConditionReturns(options, call.response, call.context, abort) :
       /\ ~AwaitStop(ret)
       /\ stopLog' = Append(stopLog, ret.value)
       /\ awaited' = Some([fn |-> "stopCondition", async |-> ret.async])
  /\ IF UpdateSupplied(hasUpdate) /\ LoopCondition(iterations, LoopBound)
       THEN /\ call' = [fn |-> "updateContext", response |-> response, context |-> currentContext]
            /\ pending' = (pending \ {Invocation("stopCondition", iterations)}) \cup {Invocation("updateContext", iterations)}
            /\ updateCalls' = updateCalls + 1
            /\ pc' = "awaitUpdate"
       ELSE /\ call' = NoCall
            /\ pending' = pending \ {Invocation("stopCondition", iterations)}
            /\ updateCalls' = updateCalls
            /\ pc' = "loop"
  /\ UNCHANGED <<locals, outcome, llmCalls, stopCalls, llmArg, llmRet, updateRet, passed,
                 surroundings>>

\* mutant: `currentContext = updateContext(...)` without await: the loop
\* goes on while updateContext is still running
StopFalse_NoAwait ==
  /\ pc = "awaitStop"
  /\ \E ret \in StopConditionReturns(options, call.response, call.context, abort) :
       /\ ~AwaitStop(ret)
       /\ stopLog' = Append(stopLog, ret.value)
       /\ awaited' = Some([fn |-> "stopCondition", async |-> ret.async])
  /\ call' = NoCall
  /\ pc' = "loop"
  /\ IF UpdateSupplied(hasUpdate)
       THEN /\ pending' = (pending \ {Invocation("stopCondition", iterations)}) \cup {Invocation("updateContext", iterations)}
            /\ updateCalls' = updateCalls + 1
       ELSE /\ pending' = pending \ {Invocation("stopCondition", iterations)}
            /\ updateCalls' = updateCalls
  /\ UNCHANGED <<locals, outcome, llmCalls, stopCalls, llmArg, llmRet, updateRet, passed,
                 surroundings>>

\* lines 84-96: stopCondition resolved to false: updateContext(response,
\* currentContext) when supplied, otherwise back to the loop test
StopFalse ==
  /\ pc = "awaitStop"
  /\ \E ret \in StopConditionReturns(options, call.response, call.context, abort) :
       /\ ~AwaitStop(ret)
       /\ stopLog' = Append(stopLog, ret.value)
       /\ awaited' = Some([fn |-> "stopCondition", async |-> ret.async])
  /\ IF UpdateSupplied(hasUpdate)
       THEN /\ call' = [fn |-> "updateContext", response |-> response, context |-> currentContext]
            /\ pending' = (pending \ {Invocation("stopCondition", iterations)}) \cup {Invocation("updateContext", iterations)}
            /\ updateCalls' = updateCalls + 1
            /\ pc' = "awaitUpdate"
       ELSE /\ call' = NoCall
            /\ pending' = pending \ {Invocation("stopCondition", iterations)}
            /\ updateCalls' = updateCalls
            /\ pc' = "loop"
  /\ UNCHANGED <<locals, outcome, llmCalls, stopCalls, llmArg, llmRet, updateRet, passed,
                 surroundings>>

\* mutant: `await updateContext(...)` without the assignment
UpdateResolve_Discards ==
  /\ pc = "awaitUpdate"
  /\ \E ret \in UpdateContextReturns(options, call.response, call.context) :
       /\ currentContext' = currentContext
       /\ updateRet' = Some(ret.value)
       /\ awaited' = Some([fn |-> "updateContext", async |-> ret.async])
  /\ call' = NoCall
  /\ pending' = pending \ {Invocation("updateContext", iterations)}
  /\ pc' = "loop"
  /\ UNCHANGED <<maxLoops, hasUpdate, lastResponse, response, iterations, outcome,
                 counters, stopLog, llmArg, llmRet, passed, surroundings>>

\* line 95: updateContext resolved; currentContext = the awaited value
UpdateResolve ==
  /\ pc = "awaitUpdate"
  /\ \E ret \in UpdateContextReturns(options, call.response, call.context) :
       /\ currentContext' = AwaitUpdate(ret)
       /\ updateRet' = Some(ret.value)
       /\ awaited' = Some([fn |-> "updateContext", async |-> ret.async])
  /\ call' = NoCall
  /\ pending' = pending \ {Invocation("updateContext", iterations)}
  /\ pc' = "loop"
  /\ UNCHANGED <<maxLoops, hasUpdate, lastResponse, response, iterations, outcome,
                 counters, stopLog, llmArg, llmRet, passed, surroundings>>

\* mutant: the context of the last llmCaller call is returned, not the
\* one the last updateContext produced
LoopExit_ReturnsPrevious ==
  /\ pc = "loop"
  /\ ~LoopCondition(iterations, LoopBound)
  /\ result' = Some(MaxLoopsResult(IF llmCalls > 0 THEN llmArg ELSE currentContext, lastResponse, iterations))
  /\ settled' = "fulfilled"
  /\ pc' = "done"
  /\ UNCHANGED <<locals, call, pending, rejection, thrown, counters, history, surroundings>>

\* lines 78, 99-104: the loop test fails: return after the loop
LoopExit ==
  /\ pc = "loop"
  /\ ~LoopCondition(iterations, LoopBound)
  /\ result' = Some(MaxLoopsResult(currentContext, lastResponse, iterations))
  /\ settled' = "fulfilled"
  /\ pc' = "done"
  /\ UNCHANGED <<locals, call, pending, rejection, thrown, counters, history, surroundings>>

\* ------------------------------------------------------- the surroundings
\* The caller sets the abort flag that its stopCondition watches.  Other
\* code runs only while the async function is suspended at an await.
SetAbort ==
  /\ pc \in AwaitPositions
  /\ options.callbacks = "any"
  /\ ~abort
  /\ abort' = TRUE
  /\ abortAt' = Some([pc |-> pc, llmCalls |-> llmCalls, updateCalls |-> updateCalls,
                      iterations |-> iterations])
  /\ UNCHANGED <<options, live, other, pc, locals, call, pending, outcome, counters, history>>

\* what a callback may turn the options object into: maxLoops lowered to 0
\* or raised above every bound tried, updateContext removed or added
Mutations(o) ==
  {[o EXCEPT !.maxLoops = Some(0)], [o EXCEPT !.maxLoops = Some(MaxLoopsBound + 1)],
   [o EXCEPT !.updateContext = ~o.updateContext]} \ {o}

\* a callback mutates the options object while the loop awaits it
MutateOptions ==
  /\ pc \in AwaitPositions
  /\ options.callbacks = "any"
  /\ ~abort
  /\ live' \in Mutations(live)
  /\ UNCHANGED <<options, abort, abortAt, other, pc, locals, call, pending, outcome,
                 counters, history>>

\* the state of the invocation that is running
Current ==
  [options |-> options, live |-> live, pc |-> pc, maxLoops |-> maxLoops,
   hasUpdate |-> hasUpdate, currentContext |-> currentContext,
   lastResponse |-> lastResponse, response |-> response, iterations |-> iterations,
   call |-> call, pending |-> pending, settled |-> settled, result |-> result,
   rejection |-> rejection, thrown |-> thrown, llmCalls |-> llmCalls,
   stopCalls |-> stopCalls, updateCalls |-> updateCalls, stopLog |-> stopLog,
   llmArg |-> llmArg, llmRet |-> llmRet, updateRet |-> updateRet, awaited |-> awaited,
   passed |-> passed, abort |-> abort, abortAt |-> abortAt]

\* the suspended invocation s becomes the running one, but for its
\* iterations and currentContext
ResumeRest(s) ==
  /\ options' = s.options
  /\ live' = s.live
  /\ pc' = s.pc
  /\ maxLoops' = s.maxLoops
  /\ hasUpdate' = s.hasUpdate
  /\ lastResponse' = s.lastResponse
  /\ response' = s.response
  /\ call' = s.call
  /\ pending' = s.pending
  /\ settled' = s.settled
  /\ result' = s.result
  /\ rejection' = s.rejection
  /\ thrown' = s.thrown
  /\ llmCalls' = s.llmCalls
  /\ stopCalls' = s.stopCalls
  /\ updateCalls' = s.updateCalls
  /\ stopLog' = s.stopLog
  /\ llmArg' = s.llmArg
  /\ llmRet' = s.llmRet
  /\ updateRet' = s.updateRet
  /\ awaited' = s.awaited
  /\ passed' = s.passed
  /\ abort' = s.abort
  /\ abortAt' = s.abortAt

\* mutant: `let iterations` is declared at module level, one counter for
\* all invocations
Switch_SharedIterations ==
  /\ other # Undefined
  /\ pc \in AwaitPositions \cup {"start", "done"}
  /\ ResumeRest(other[1])
  /\ iterations' = iterations
  /\ currentContext' = other[1].currentContext
  /\ other' = Some(Current)

\* mutant: `let currentContext` is declared at module level
Switch_SharedContext ==
  /\ other # Undefined
  /\ pc \in AwaitPositions \cup {"start", "done"}
  /\ ResumeRest(other[1])
  /\ iterations' = other[1].iterations
  /\ currentContext' = currentContext
  /\ other' = Some(Current)

\* lines 69-76, 81, 84, 95: the running invocation is suspended at an await
\* (or has not started, or is over) and the other invocation resumes; each
\* invocation has its own locals
Switch ==
  /\ other # Undefined
  /\ pc \in AwaitPositions \cup {"start", "done"}
  /\ ResumeRest(other[1])
  /\ iterations' = other[1].iterations
  /\ currentContext' = other[1].currentContext
  /\ other' = Some(Current)

\* --------------------------------------------------------- specifications
Next ==
  \/ Enter
  \/ LoopEnter
  \/ LlmResolve
  \/ LlmReject
  \/ StopTrue
  \/ StopFalse
  \/ StopReject
  \/ UpdateResolve
  \/ UpdateReject
  \/ LoopExit
  \/ SetAbort
  \/ MutateOptions

Spec == Init /\ [][Next]_vars

\* Every started callback invocation completes, and the runtime resumes the
\* async function after each await.
FairSpec ==
  /\ Spec
  /\ WF_vars(Enter \/ LoopEnter \/ LoopExit)
  /\ WF_vars(LlmResolve \/ LlmReject)
  /\ WF_vars(StopTrue \/ StopFalse \/ StopReject)
  /\ WF_vars(UpdateResolve \/ UpdateReject)

\* two invocations with counter callbacks, the second one not yet started
PairInit ==
  /\ \E opts \in PairOptions : Begun(opts)
  /\ \E opts \in PairOptions : other = Some(StartState(opts))

\* the steps of the running invocation, and the switches between the two
PairNext ==
  \/ Enter
  \/ LoopEnter
  \/ LlmResolve
  \/ StopTrue
  \/ StopFalse
  \/ UpdateResolve
  \/ LoopExit
  \/ Switch

PairSpec == PairInit /\ [][PairNext]_vars

\* ------------------------------------------------------------- properties
Max(a, b) == IF a >= b THEN a ELSE b

Fulfilled == settled = "fulfilled"

\* the AgentLoopResult of a fulfilled run
Res == result[1]

\* index of the first TRUE of the log, 0 when there is none
FirstTrue(log) == IF \E i \in 1..Len(log) : log[i] THEN CHOOSE i \in 1..Len(log) : log[i] /\ \A j \in 1..(i - 1) : ~log[j] ELSE 0

\* C1: when stopCondition resolves to false on iterations 1..k-1 and to true
\* on iteration k (1 <= k <= maxLoops) and no callback fails, the run is
\* fulfilled with iterations = k and reason 'stop_condition', llmCaller was
\* invoked exactly k times, and updateContext (when one was supplied) exactly
\* k-1 times.
C1_StopOnIterationK ==
  LET k == FirstTrue(stopLog) IN
    (k >= 1 /\ k <= maxLoops /\ thrown = Undefined) =>
      /\ Fulfilled
      /\ Res.iterations = k
      /\ Res.reason = "stop_condition"
      /\ llmCalls = k
      /\ stopCalls = k
      /\ options.updateContext => updateCalls = k - 1
      /\ ~options.updateContext => updateCalls = 0

C1_Witness ==
  /\ Fulfilled
  /\ FirstTrue(stopLog) = 3
  /\ options.updateContext
  /\ updateCalls = 2
  /\ Res.iterations = 3

\* C2: when stopCondition resolves to false on every one of the maxLoops
\* iterations (maxLoops >= 0 of them) and no callback fails, the result has
\* reason 'max_loops' and iterations = maxLoops, llmCaller was invoked
\* exactly maxLoops times, and updateContext (when supplied) exactly maxLoops
\* times, the last of them after the final allowed iteration.
C2_BudgetExhausted ==
  (Fulfilled /\ FirstTrue(stopLog) = 0 /\ maxLoops >= 0) =>
    /\ Res.reason = "max_loops"
    /\ Res.iterations = maxLoops
    /\ llmCalls = maxLoops
    /\ Len(stopLog) = maxLoops
    /\ options.updateContext => updateCalls = maxLoops
    /\ (options.updateContext /\ maxLoops >= 1) => updateRet = Some(Res.finalContext)

C2_Witness ==
  /\ Fulfilled
  /\ Res.reason = "max_loops"
  /\ options.maxLoops = Some(MaxLoopsBound)
  /\ options.updateContext
  /\ updateCalls = MaxLoopsBound
  /\ Len(stopLog) = MaxLoopsBound

\* C3: with maxLoops = 0 no callback is ever invoked, and the run returns
\* finalContext = initialContext, lastResponse undefined, reason 'max_loops'
\* and iterations = 0.
C3_ZeroLoops ==
  options.maxLoops = Some(0) =>
    /\ llmCalls = 0 /\ stopCalls = 0 /\ updateCalls = 0
    /\ call = NoCall
    /\ pc \in {"start", "loop", "done"}
    /\ pc = "done" =>
         /\ Fulfilled
         /\ Res = [finalContext |-> options.initialContext, lastResponse |-> Undefined,
                   reason |-> "max_loops", iterations |-> 0]

C3_Witness == options.maxLoops = Some(0) /\ pc = "done" /\ Fulfilled

\* C4 as stated: in every returned result iterations equals the number of
\* llmCaller invocations and 0 <= iterations <= maxLoops (the configured
\* value, or 10 when omitted).
C4_Original ==
  Fulfilled =>
    /\ Res.iterations = llmCalls
    /\ 0 <= Res.iterations
    /\ Res.iterations <= DestructuredMaxLoops(options)

\* C4 amended: in every returned result iterations equals the number of
\* llmCaller invocations and 0 <= iterations <= max(maxLoops, 0): for a
\* negative maxLoops it is 0, which is above the configured value.
C4_IterationsCountCalls ==
  Fulfilled =>
    /\ Res.iterations = llmCalls
    /\ 0 <= Res.iterations
    /\ Res.iterations <= Max(DestructuredMaxLoops(options), 0)
    /\ DestructuredMaxLoops(options) < 0 => Res.iterations = 0

C4_Witness ==
  /\ Fulfilled
  /\ options.maxLoops = Undefined
  /\ Res.iterations = DefaultMaxLoops
  /\ llmCalls = DefaultMaxLoops

\* C5 as stated: if every callback invocation completes, every run of
\* agentLoop completes, having invoked llmCaller at most maxLoops times.
C5_Original ==
  /\ <>(pc = "done")
  /\ [](pc = "done" => llmCalls <= DestructuredMaxLoops(options))

\* C5 amended: if every callback invocation completes, every run of agentLoop
\* completes (fulfilled or rejected), having invoked llmCaller at most
\* max(maxLoops, 0) times.
C5_Terminates ==
  /\ <>(pc = "done" /\ settled \in {"fulfilled", "rejected"})
  /\ [](llmCalls <= Max(DestructuredMaxLoops(options), 0))

C5_Witness ==
  /\ pc = "done"
  /\ settled = "rejected"
  /\ options.maxLoops = Some(2)
  /\ llmCalls = 2
  /\ thrown[1].by = "updateContext"

\* C6: when a callback invocation fails, agentLoop rejects with that same
\* error and returns no result, and after the failing invocation no callback
\* is invoked again in the run.
C6_FailurePropagates ==
  /\ [](thrown # Undefined =>
          /\ settled = "rejected"
          /\ rejection = Some(thrown[1].error)
          /\ result = Undefined
          /\ call = NoCall)
  /\ [][thrown # Undefined => (thrown' = thrown /\ call' = NoCall /\ UNCHANGED counters)]_vars
  /\ [][(thrown = Undefined /\ thrown' # Undefined) =>
          (call.fn = thrown'[1].by /\ UNCHANGED counters)]_vars

C6_Witness ==
  /\ thrown # Undefined
  /\ thrown[1].by = "stopCondition"
  /\ thrown[1].error = NumErrors
  /\ settled = "rejected"
  /\ llmCalls = 2
  /\ options.updateContext
  /\ updateCalls = 1

\* C7: a result with reason 'stop_condition' carries as finalContext the
\* context that was passed to the llmCaller invocation that produced the
\* terminating response: initialContext on iteration 1, otherwise what the
\* previous iteration's updateContext resolved to; no updateContext
\* invocation was given the terminating response.
C7_FinalContextOnStop ==
  (Fulfilled /\ Res.reason = "stop_condition") =>
    /\ Res.finalContext = llmArg
    /\ Res.lastResponse = llmRet[1]
    /\ llmCalls = 1 => Res.finalContext = options.initialContext
    /\ (llmCalls > 1 /\ options.updateContext) => updateRet = Some(Res.finalContext)
    /\ (llmCalls > 1 /\ ~options.updateContext) => Res.finalContext = options.initialContext
    /\ updateCalls = (IF options.updateContext THEN llmCalls - 1 ELSE 0)

C7_Witness ==
  /\ Fulfilled
  /\ Res.reason = "stop_condition"
  /\ llmCalls = 2
  /\ options.updateContext
  /\ Res.finalContext # options.initialContext

\* C8: stopCondition is called with the response its iteration's llmCaller
\* resolved to and with the context that llmCaller was called with; that
\* iteration's updateContext has not been invoked yet.
C8_StopConditionArguments ==
  (pc = "awaitStop" \/ call.fn = "stopCondition") =>
    /\ pc = "awaitStop"
    /\ call.fn = "stopCondition"
    /\ llmRet # Undefined
    /\ call.response = llmRet[1]
    /\ call.context = llmArg
    /\ stopCalls = llmCalls
    /\ stopCalls = iterations
    /\ updateCalls = (IF options.updateContext THEN stopCalls - 1 ELSE 0)
    /\ (stopCalls > 1 /\ options.updateContext) => updateRet = Some(call.context)

C8_Witness ==
  /\ pc = "awaitStop"
  /\ stopCalls = 3
  /\ call.context # options.initialContext
  /\ call.response = Some(NumResponses)

\* C9: when updateContext is omitted, every llmCaller and stopCondition
\* invocation receives initialContext and the returned finalContext is
\* initialContext, for either termination reason.
C9_ContextCarriedUnchanged ==
  (~options.updateContext /\ pc # "start") =>
    /\ call.fn \in {"none", "llmCaller", "stopCondition"}
    /\ call.fn # "none" => call.context = options.initialContext
    /\ llmCalls > 0 => llmArg = options.initialContext
    /\ currentContext = options.initialContext
    /\ updateCalls = 0
    /\ Fulfilled => Res.finalContext = options.initialContext

C9_Witness ==
  /\ ~options.updateContext
  /\ Fulfilled
  /\ Res.reason = "max_loops"
  /\ llmCalls = 3
  /\ Res.lastResponse # Undefined

\* C10 as stated: a result with iterations >= 1 carries as lastResponse the
\* value the most recent llmCaller invocation resolved to, and lastResponse
\* is undefined only when zero iterations ran.
C10_Original ==
  Fulfilled =>
    /\ Res.iterations >= 1 => (llmRet # Undefined /\ Res.lastResponse = llmRet[1])
    /\ Res.lastResponse = Undefined => Res.iterations = 0

\* C10 amended: a result with iterations >= 1 carries as lastResponse the
\* value the most recent llmCaller invocation resolved to; lastResponse is
\* undefined only when zero iterations ran or that invocation itself
\* resolved to undefined.
C10_LastResponse ==
  Fulfilled =>
    /\ Res.iterations >= 1 => (llmRet # Undefined /\ Res.lastResponse = llmRet[1])
    /\ Res.iterations = 0 => (Res.lastResponse = Undefined /\ llmRet = Undefined)
    /\ Res.lastResponse = Undefined => (Res.iterations = 0 \/ llmRet = Some(Undefined))

C10_Witness ==
  /\ Fulfilled
  /\ Res.iterations = 2
  /\ Res.lastResponse = Some(1)
  /\ llmRet = Some(Some(1))

\* C11: when maxLoops is omitted the bound is 10: if stopCondition never
\* resolves to true, llmCaller is invoked exactly 10 times and the result
\* has reason 'max_loops' and iterations = 10.
C11_DefaultBound ==
  (options.maxLoops = Undefined /\ pc # "start") =>
    /\ maxLoops = 10
    /\ llmCalls <= 10
    /\ (Fulfilled /\ FirstTrue(stopLog) = 0) =>
         /\ Res.reason = "max_loops"
         /\ Res.iterations = 10
         /\ llmCalls = 10
         /\ Len(stopLog) = 10

C11_Witness ==
  /\ options.maxLoops = Undefined
  /\ options.callbacks = "counter"
  /\ Fulfilled
  /\ Res.reason = "max_loops"
  /\ Len(stopLog) = 10
  /\ llmCalls = 10

\* the callback completed last, when there is one
LastAwaited == IF awaited = Undefined THEN "none" ELSE awaited[1].fn

\* C12: the callbacks of one run are strictly sequential: at most one
\* callback invocation is pending at any time, and an llmCaller invocation
\* is started only when nothing is pending and the previous iteration's
\* updateContext (its stopCondition when none is supplied) has completed.
C12_StrictlySequential ==
  /\ [](Cardinality(pending) <= 1)
  /\ [](pending = (IF call.fn = "none" THEN {} ELSE {Invocation(call.fn, iterations)}))
  /\ [][llmCalls' = llmCalls + 1 =>
          /\ pending = {}
          /\ pending' = {Invocation("llmCaller", llmCalls + 1)}
          /\ Len(stopLog) = llmCalls
          /\ llmCalls > 0 =>
               LastAwaited = (IF options.updateContext THEN "updateContext" ELSE "stopCondition")]_vars

C12_Witness ==
  /\ pc = "awaitLlm"
  /\ llmCalls = 3
  /\ pending = {Invocation("llmCaller", 3)}
  /\ awaited = Some([fn |-> "updateContext", async |-> TRUE])

\* C13: a stopCondition or updateContext that returns a promise is awaited:
\* the stop decision is the boolean the promise resolves to (false: the run
\* goes on; true: the run returns 'stop_condition' and no updateContext is
\* started), and the next llmCaller invocation receives the context the
\* updateContext promise resolves to.
C13_PromisesAwaited ==
  /\ [][Len(stopLog') = Len(stopLog) + 1 =>
          IF stopLog'[Len(stopLog')]
            THEN /\ settled' = "fulfilled"
                 /\ result'[1].reason = "stop_condition"
                 /\ updateCalls' = updateCalls
                 /\ pending' = {}
            ELSE /\ settled' = "pending"
                 /\ pc' = (IF options.updateContext THEN "awaitUpdate" ELSE "loop")]_vars
  /\ [][(pc = "awaitUpdate" /\ pc' = "loop") =>
          (updateRet' # Undefined /\ currentContext' = updateRet'[1])]_vars
  /\ []((pc = "awaitLlm" /\ llmCalls >= 2 /\ options.updateContext) =>
          (call.context = updateRet[1] /\ call.context = currentContext))

C13_Witness ==
  /\ awaited = Some([fn |-> "stopCondition", async |-> TRUE])
  /\ stopLog = <<FALSE, FALSE>>
  /\ pc = "awaitUpdate"
  /\ settled = "pending"

\* C14: with updateContext supplied, the context passed to the i-th
\* llmCaller invocation (i >= 2) is the value updateContext returned in
\* iteration i-1, where it was called with that iteration's response and
\* context.  With a counter context starting at 0, an incrementing
\* updateContext and a stopCondition true from 3 on, the run takes exactly 4
\* iterations and returns finalContext 3.
C14_ContextThreading ==
  /\ (pc = "awaitLlm" /\ llmCalls >= 2 /\ options.updateContext) =>
       (updateRet # Undefined /\ call.context = updateRet[1])
  /\ call.fn = "updateContext" =>
       /\ call.response = llmRet[1]
       /\ call.context = llmArg
       /\ updateCalls = llmCalls
  /\ (/\ options.callbacks = "counter"
      /\ options.initialContext = 0
      /\ options.threshold = 3
      /\ options.updateContext
      /\ options.maxLoops = Undefined
      /\ pc = "done") =>
       /\ Fulfilled
       /\ Res.reason = "stop_condition"
       /\ Res.iterations = 4
       /\ Res.finalContext = 3
       /\ updateCalls = 3

C14_Witness ==
  /\ options.callbacks = "counter"
  /\ options.initialContext = 0
  /\ options.threshold = 3
  /\ options.updateContext
  /\ options.maxLoops = Undefined
  /\ Fulfilled
  /\ Res.iterations = 4

\* the case of C15: 'max_loops' after maxLoops >= 1 iterations, with
\* updateContext supplied
C15_Case ==
  /\ Fulfilled
  /\ Res.reason = "max_loops"
  /\ maxLoops >= 1
  /\ options.updateContext

\* C15 as stated: in that case finalContext is the value updateContext
\* returned on the final allowed iteration, a context that was never passed
\* to llmCaller or stopCondition; updateContext is not skipped on the last
\* iteration.
C15_Original ==
  C15_Case =>
    /\ updateRet = Some(Res.finalContext)
    /\ Res.finalContext \notin passed
    /\ updateCalls = maxLoops

\* C15 amended: in that case finalContext is the value updateContext
\* returned on the final allowed iteration, and the loop invokes no callback
\* after that updateContext (so it passes its result to none); the value
\* may equal a context passed earlier when updateContext returns one.
\* updateContext is not skipped on the last iteration.
C15_FinalContextOnMaxLoops ==
  C15_Case =>
    /\ updateRet = Some(Res.finalContext)
    /\ updateCalls = maxLoops
    /\ llmCalls = maxLoops
    /\ stopCalls = maxLoops
    /\ LastAwaited = "updateContext"
    /\ pending = {}
    /\ call = NoCall

C15_Witness ==
  /\ C15_Case
  /\ options.callbacks = "any"
  /\ maxLoops = 2
  /\ Res.finalContext \notin passed
  /\ updateCalls = 2

\* number of callback invocations started so far
Started == llmCalls + stopCalls + updateCalls

\* C16: the callback invocations of a run form a prefix of the repetition
\* of (llmCaller, stopCondition, updateContext), updateContext being left
\* out when none is supplied: stopCondition is started exactly once per
\* iteration, in the step in which that iteration's llmCaller returns and
\* before any updateContext; nothing else is invoked; in every returned
\* result stopCondition was invoked as often as llmCaller.
C16_CallbackOrder ==
  /\ [](/\ call.fn \in {"none", "llmCaller", "stopCondition", "updateContext"}
        /\ stopCalls \in {llmCalls, llmCalls - 1}
        /\ llmCalls = iterations
        /\ IF options.updateContext
             THEN updateCalls \in {stopCalls, stopCalls - 1} /\ updateCalls >= llmCalls - 1
             ELSE updateCalls = 0
        /\ Fulfilled => stopCalls = llmCalls)
  /\ [][/\ Started' \in {Started, Started + 1}
        /\ llmCalls' \in {llmCalls, llmCalls + 1}
        /\ stopCalls' \in {stopCalls, stopCalls + 1}
        /\ updateCalls' \in {updateCalls, updateCalls + 1}
        /\ llmCalls' = llmCalls + 1 =>
             (stopCalls = llmCalls /\ (options.updateContext => updateCalls = llmCalls))
        /\ stopCalls' = stopCalls + 1 <=> (pc = "awaitLlm" /\ pc' = "awaitStop")
        /\ (pc = "awaitLlm" /\ pc' # pc /\ settled' = "pending") => stopCalls' = stopCalls + 1
        /\ stopCalls' = stopCalls + 1 => (call.fn = "llmCaller" /\ updateCalls' = updateCalls)
        /\ updateCalls' = updateCalls + 1 =>
             (call.fn = "stopCondition" /\ stopCalls = llmCalls /\ updateCalls = stopCalls - 1)]_vars

C16_Witness ==
  /\ pc = "awaitUpdate"
  /\ call.fn = "updateContext"
  /\ llmCalls = 3
  /\ stopCalls = 3
  /\ updateCalls = 3

C19_OptionsReadOnce ==
  /\ [](pc # "start" =>
          /\ maxLoops = DestructuredMaxLoops(options)
          /\ hasUpdate = options.updateContext)
  /\ [][llmCalls' = llmCalls + 1 => iterations < DestructuredMaxLoops(options)]_vars
  /\ [][(settled = "pending" /\ settled' = "fulfilled" /\ result'[1].reason = "max_loops") =>
          iterations >= DestructuredMaxLoops(options)]_vars
  /\ [][updateCalls' = updateCalls + 1 => options.updateContext]_vars
  /\ [][(pc = "awaitStop" /\ pc' = "loop") => ~options.updateContext]_vars

C19_Witness ==
  /\ live.maxLoops = Some(0)
  /\ live.updateContext # options.updateContext
  /\ options.maxLoops = Some(3)
  /\ options.updateContext
  /\ Fulfilled
  /\ Res.reason = "max_loops"
  /\ Res.iterations = 3
  /\ updateCalls = 3

\* The result of an invocation with counter callbacks that runs alone,
\* computed iteration by iteration from what its callbacks return.
RECURSIVE AloneFrom(_, _, _, _)
AloneFrom(o, ctx, last, it) ==
  IF it >= (IF o.maxLoops = Undefined THEN 10 ELSE o.maxLoops[1])
    THEN [finalContext |-> ctx, lastResponse |-> last, reason |-> "max_loops", iterations |-> it]
    ELSE LET r == CHOOSE x \in LlmCallerReturns(o, ctx) : TRUE
             stop == (CHOOSE x \in StopConditionReturns(o, r, ctx, FALSE) : TRUE).value
             next == IF o.updateContext
                       THEN (CHOOSE x \in UpdateContextReturns(o, r, ctx) : TRUE).value
                       ELSE ctx
         IN IF stop
              THEN [finalContext |-> ctx, lastResponse |-> r, reason |-> "stop_condition", iterations |-> it + 1]
              ELSE AloneFrom(o, next, r, it + 1)

AloneResult(o) == AloneFrom(o, o.initialContext, Undefined, 0)

\* a single invocation with counter callbacks returns AloneResult
AloneResultIsSingleRun ==
  (other = Undefined /\ options.callbacks = "counter" /\ pc = "done") =>
    result = Some(AloneResult(options))

\* C17: two invocations whose steps interleave arbitrarily at the awaits
\* each return the result they return when run alone, and no step of one
\* reads or writes a loop variable of the other: a step of the running
\* invocation leaves the suspended one as it is, and a switch hands every
\* variable back unchanged.
C17_IndependentInvocations ==
  /\ [](pc = "done" => result = Some(AloneResult(options)))
  /\ [](other[1].pc = "done" => other[1].result = Some(AloneResult(other[1].options)))
  /\ [][\/ other' = other
        \/ (other' = Some(Current) /\ Current' = other[1])]_vars

C17_Witness ==
  /\ pc = "done"
  /\ settled = "fulfilled"
  /\ other[1].pc = "awaitUpdate"
  /\ other[1].llmCalls = 2
  /\ options # other[1].options
  /\ options.initialContext # other[1].options.initialContext
  /\ result[1].iterations = 2
  /\ result[1].reason = "stop_condition"

\* the position of the running invocation in its sequence of callback
\* invocations
Progress(s) == <<s.pc, s.llmCalls, s.stopCalls, s.updateCalls>>

\* C20: two invocations given the same configuration, with callbacks that
\* are functions of their arguments, make the same callback invocations
\* with the same arguments in the same order (at equal positions they are
\* in equal states) and return identical results, whether the second starts
\* after the first is over or while it runs.
C20_Deterministic ==
  (other # Undefined /\ other[1].options = options) =>
    /\ (pc = "done" /\ other[1].pc = "done") => result = other[1].result
    /\ Progress(Current) = Progress(other[1]) => Current = other[1]

C20_Witness ==
  /\ other # Undefined
  /\ other[1].options = options
  /\ pc = "done"
  /\ other[1].pc = "done"
  /\ result = other[1].result
  /\ result[1].iterations = 2
  /\ result[1].reason = "max_loops"
  /\ result[1].finalContext = 2

\* ------------------------------------------------------------------- C21
\* the configured maxLoops is below zero
NegativeMaxLoops == options.maxLoops # Undefined /\ options.maxLoops[1] < 0

\* C21: for a negative maxLoops agentLoop behaves as for 0: no callback is
\* ever invoked, and the run returns finalContext = initialContext,
\* lastResponse undefined, reason 'max_loops' and iterations = 0, which is
\* above the configured maximum and not negative.
C21_NegativeMaxLoops ==
  NegativeMaxLoops =>
    /\ Started = 0
    /\ pending = {}
    /\ passed = {}
    /\ stopLog = <<>>
    /\ rejection = Undefined
    /\ pc = "done" =>
         /\ Fulfilled
         /\ Res = MaxLoopsResult(options.initialContext, Undefined, 0)
         /\ Res.iterations > options.maxLoops[1]
         /\ Res.iterations >= 0

C21_Witness ==
  /\ NegativeMaxLoops
  /\ options.maxLoops[1] = 0 - NegLoopsBound
  /\ pc = "done"
  /\ Res.reason = "max_loops"
  /\ Res.iterations = 0

\* ------------------------------------------------------------------- C22
\* C22: a result with reason 'max_loops' is returned only if every
\* stopCondition evaluation of the run resolved to false and the counter
\* reached the bound (the loop test iterations < maxLoops fails; for a bound
\* of 0 or more the counter equals it); a result with reason
\* 'stop_condition' only if the last evaluation resolved to true and all
\* earlier ones to false; every returned result carries exactly one of the
\* two reasons.
C22_ReasonMatchesRun ==
  Fulfilled =>
    LET n == Len(stopLog)
        bound == DestructuredMaxLoops(options) IN
      /\ Res.reason \in {"max_loops", "stop_condition"}
      /\ Res.reason = "max_loops" =>
           /\ \A i \in 1..n : ~stopLog[i]
           /\ Res.iterations >= bound
           /\ bound >= 0 => Res.iterations = bound /\ n = bound
      /\ Res.reason = "stop_condition" =>
           /\ n >= 1
           /\ stopLog[n]
           /\ \A i \in 1..(n - 1) : ~stopLog[i]
           /\ Res.iterations = n

C22_Witness ==
  /\ Fulfilled
  /\ Res.reason = "stop_condition"
  /\ stopLog = <<FALSE, TRUE>>
  /\ Res.iterations = 2
  /\ options.maxLoops = Some(MaxLoopsBound)

====
